---- MODULE Spec2Model ----
(***************************************************************************)
(* A model of the firmware staging tools:                                  *)
(*   - tools/ota_server/ota-upload/server.py : the upload server           *)
(*   - tools/upload_scripts/deploy_ota.py    : the build hook that stages  *)
(*     the firmware locally and posts it to the server                     *)
(*   - tools/upload_scripts/select_upload.py : the build hook that picks   *)
(*     the upload method                                                   *)
(*   - tools/esp_fs_inspector.py             : send_command, the framing   *)
(*     of a response read from the serial line                             *)
(* A byte string is a sequence of tokens.  A token is one byte ("CR",      *)
(* "LF", "-", "a", ...) or a fixed run of bytes that the code only ever    *)
(* looks for as a whole (a header fragment such as name="firmware", the    *)
(* boundary string).                                                       *)
(***************************************************************************)
EXTENDS Integers, Sequences, FiniteSets, TLC

VARIABLES
    \* ---- server.py: the staging directory and the handler threads
    fileBin,      \* FIRMWARE_DIR/firmware.bin   [exists, bytes]
    manifest,     \* FIRMWARE_DIR/manifest.json  [state, m, len]
    pc,           \* pc[t]: where handler thread t stands in do_POST
    req,          \* req[t]: the request thread t is handling
    firmware_data,\* firmware_data[t]: do_POST's local  [set, bytes]
    form_data,    \* form_data[t]: do_POST's local  [version, board], each [set, val]
    resp,         \* resp[t]: the last response thread t sent
    replaced,     \* replaced[t]: the request thread t handles met a staged
                  \* firmware other than its own (history, read by no action)
    other,        \* the last request that was not a POST, and its answer
                  \* [method, path, resp] (history, read by no action)
    wlog,         \* wlog[t]: the file accesses of the request thread t
                  \* handles, in order (history, read by no action)
    lastOk        \* the md5 and size of the last upload answered 200
                  \* (history, read by no action)

srvVars == <<fileBin, manifest, pc, req, firmware_data, form_data, resp, replaced,
             other, wlog, lastOk>>

VARIABLES
    \* ---- deploy_ota.py: the build hook
    cfg,          \* the build environment the hook runs in (fixed for a run)
    cpc,          \* where the hook stands in deploy_firmware / post_firmware_to_server
    localBin,     \* PROJECT_DIR/ota/firmware/firmware.bin   [exists, bytes]
    localManifest,\* PROJECT_DIR/ota/firmware/manifest.json  [exists, m, text]:
                  \* the dict that was dumped and the text in the file
    probes,       \* what the two probes came to  [socket, health]
    attempt,      \* the loop variable of `for attempt in range(...)`
    outcomes,     \* what each attempt made so far ran into, in order
    net,          \* network operations begun so far  [connect, get, post]
    postResult,   \* what post_firmware_to_server returned: "none", "True", "False"
    retLine,      \* the line of the return statement it left by, 0 before
    raised,       \* an exception left deploy_firmware
    server_url,   \* the URL deploy_firmware handed to post_firmware_to_server
    UPLOADCMD     \* select_upload.py: the build's upload command, "default"
                  \* or "disabled"

cliVars == <<cfg, cpc, localBin, localManifest, probes, attempt, outcomes, net,
             postResult, retLine, raised, server_url, UPLOADCMD>>

VARIABLES
    \* ---- esp_fs_inspector.py: one call of send_command
    is_open,         \* self.serial is there and open
    ipc,             \* where send_command stands: "call", "loop", "done" ("off")
    in_waiting,      \* the serial input buffer: the lines received, not yet read
    sent,            \* the number of lines the device has sent so far
    clock,           \* time.time() - start_time, in ticks
    response_lines,  \* send_command's local
    found_response,  \* send_command's local
    result,          \* what send_command returned  [set, val], None for None
    heard            \* the lines readline() gave, stripped, each with the
                     \* clock of its loop test (history, read by no action)

inspVars == <<is_open, ipc, in_waiting, sent, clock, response_lines, found_response,
              result, heard>>

vars == <<srvVars, cliVars, inspVars>>

----------------------------------------------------------------------------
\* Bounds of the model

\* longest firmware payload, in bytes
MaxLen == 2

----------------------------------------------------------------------------
\* Byte strings

CR == "CR"
LF == "LF"
Dash == "-"

CRLF == <<CR, LF>>

\* the bytes a payload is drawn from
PayloadBytes == {"a", CR, LF, Dash}

RECURSIVE SeqsUpTo(_, _)
SeqsUpTo(S, n) ==
    IF n = 0 THEN {<<>>}
    ELSE LET shorter == SeqsUpTo(S, n - 1)
         IN  shorter \cup {Append(s, x) : s \in {q \in shorter : Len(q) = n - 1}, x \in S}

\* s[from..] (1-based), the empty string when from is past the end
From(s, from) == SubSeq(s, from, Len(s))

\* whether sub occurs in s at position i (1-based)
OccursAt(s, sub, i) ==
    /\ i >= 1
    /\ i + Len(sub) - 1 <= Len(s)
    /\ \A k \in 1..Len(sub) : s[i + k - 1] = sub[k]

\* bytes.find: the first position of sub in s, 1-based; 0 when there is none
\* (Python's find returns this minus one)
Find(s, sub) ==
    LET hits == {i \in 1..(Len(s) - Len(sub) + 1) : OccursAt(s, sub, i)}
    IN  IF hits = {} THEN 0 ELSE CHOOSE i \in hits : \A j \in hits : i <= j

\* the `in` operator on bytes
Contains(s, sub) == Find(s, sub) # 0

\* bytes.split(sep): the pieces between the non-overlapping occurrences of
\* sep, found left to right
RECURSIVE Split(_, _)
Split(s, sep) ==
    LET i == Find(s, sep)
    IN  IF i = 0 THEN <<s>>
        ELSE <<SubSeq(s, 1, i - 1)>> \o Split(From(s, i + Len(sep)), sep)

\* bytes.rstrip(chars): drop every trailing byte that is in chars
RECURSIVE RStrip(_, _)
RStrip(s, chars) ==
    IF s # <<>> /\ s[Len(s)] \in chars THEN RStrip(SubSeq(s, 1, Len(s) - 1), chars)
    ELSE s

IsPrefix(p, s) == Len(p) <= Len(s) /\ SubSeq(s, 1, Len(p)) = p

\* hashlib.md5(b).hexdigest(): a digest that is different for different bytes
MD5(b) == <<"md5", b>>

----------------------------------------------------------------------------
\* The multipart request a client sends (deploy_ota.py hands the fields to
\* requests.post, which writes one part per field, the form fields first)

Boundary == <<"BOUNDARY">>

\* b"--" + boundary
Delimiter == <<Dash, Dash>> \o Boundary

NameFirmware == <<"name=\"firmware\"">>
NameVersion == <<"name=\"version\"">>
NameBoard == <<"name=\"board\"">>

\* the header lines of a form field's part, up to and with the blank line
FieldHeader(name) ==
    <<"Content-Disposition: form-data; ">> \o name \o CRLF \o CRLF

\* the header lines of the file part
FileHeader(name) ==
    <<"Content-Disposition: form-data; ">> \o name \o <<"; filename=\"firmware.bin\"">>
        \o CRLF \o <<"Content-Type: application/octet-stream">> \o CRLF \o CRLF

EncodePart(header, value) == Delimiter \o CRLF \o header \o value \o CRLF

\* an optional value: Python's None, or a missing form field
None == [set |-> FALSE, val |-> <<>>]
Some(v) == [set |-> TRUE, val |-> v]

\* the body of request r: a part per field that is there, then the closing
\* delimiter
Body(r) ==
    (IF r.version.set THEN EncodePart(FieldHeader(NameVersion), r.version.val) ELSE <<>>)
    \o (IF r.board.set THEN EncodePart(FieldHeader(NameBoard), r.board.val) ELSE <<>>)
    \o (IF r.firmware.set THEN EncodePart(FileHeader(NameFirmware), r.firmware.val) ELSE <<>>)
    \o Delimiter \o <<Dash, Dash>> \o CRLF

CtMultipart == <<"multipart/form-data; ", "boundary=">> \o Boundary
CtNoBoundary == <<"multipart/form-data">>

Payloads == SeqsUpTo(PayloadBytes, MaxLen)
Versions == {<<"1">>}
Boards == {<<"x">>}

\* the upload requests with a well-formed header, over a set of payloads
UploadRequests(payloads) ==
    [path : {"/upload"}, ctype : {CtMultipart},
     version : {None} \cup {Some(v) : v \in Versions},
     board : {None} \cup {Some(b) : b \in Boards},
     firmware : {None} \cup {Some(p) : p \in payloads}]

\* a POST to another path, and an upload whose Content-Type names no boundary
OtherRequests ==
    [path : {"/other"}, ctype : {CtMultipart}, version : {None}, board : {None},
     firmware : {Some(<<"a">>)}]
    \cup
    [path : {"/upload"}, ctype : {CtNoBoundary}, version : {None}, board : {None},
     firmware : {Some(<<"a">>)}]

NoRequest ==
    [path |-> "", ctype |-> <<>>, version |-> None, board |-> None, firmware |-> None]

----------------------------------------------------------------------------
\* server.py, Handler.do_POST: parsing

\* the bytes rstrip(b"\r\n--") takes off the end
StripChars == {CR, LF, Dash}

\* the payload of a part: what follows the first blank line, trailing
\* CR, LF and '-' bytes dropped; None when find() gives idx <= 0
PartPayload(part) ==
    LET p == Find(part, CRLF \o CRLF)
    IN  IF p > 1 THEN Some(RStrip(From(part, p + 4), StripChars)) ELSE None

\* one round of `for part in parts`; acc is [firmware_data, form_data]
ParsePart(part, acc) ==
    IF Contains(part, NameFirmware)
    THEN IF PartPayload(part).set
         THEN [acc EXCEPT !.firmware_data = PartPayload(part)]
         ELSE acc
    ELSE LET v == IF Contains(part, NameVersion) /\ PartPayload(part).set
                  THEN PartPayload(part) ELSE acc.form_data.version
             b == IF Contains(part, NameBoard) /\ PartPayload(part).set
                  THEN PartPayload(part) ELSE acc.form_data.board
         IN  [acc EXCEPT !.form_data = [version |-> v, board |-> b]]

RECURSIVE ParseParts(_, _, _)
ParseParts(parts, i, acc) ==
    IF i > Len(parts) THEN acc
    ELSE ParseParts(parts, i + 1, ParsePart(parts[i], acc))

EmptyForm == [version |-> None, board |-> None]

\* the pieces content_type.split("boundary=") gives
CtPieces(ctype) == Split(ctype, <<"boundary=">>)

\* firmware_data and form_data as the loop leaves them
Parse(r) ==
    LET boundary == CtPieces(r.ctype)[2]
        parts == Split(Body(r), <<Dash, Dash>> \o boundary)
    IN  ParseParts(parts, 1, [firmware_data |-> None, form_data |-> EmptyForm])

\* (variant: `if firmware_data is None`)
NoFirmwareNoneOnly(fd) == ~fd.set

\* `if not firmware_data`
NoFirmware(fd) == ~fd.set \/ fd.val = <<>>

\* form_data.get(field, default)
DefaultVersion == <<"0", ".", "0", ".", "0">>
DefaultBoard == <<"unknown">>
GetOr(field, default) == IF field.set THEN field.val ELSE default

\* the manifest dict of do_POST (its timestamp, which nothing reads back,
\* is left out)
ServerManifest(fd, form) ==
    [version |-> GetOr(form.version, DefaultVersion),
     file |-> "firmware.bin",
     md5 |-> MD5(fd.val),
     size |-> Len(fd.val),
     board |-> GetOr(form.board, DefaultBoard)]

\* the length of json.dumps(manifest, indent=2), up to a constant: the
\* lengths of the values that vary
RECURSIVE Digits(_)
Digits(n) == IF n < 10 THEN 1 ELSE 1 + Digits(n \div 10)

JsonLen(m) == Len(m.version) + Digits(m.size) + Len(m.board)

----------------------------------------------------------------------------
\* server.py, Handler.do_POST: the files

NullManifest ==
    [version |-> <<>>, file |-> "", md5 |-> <<"md5", <<>>>>, size |-> 0, board |-> <<>>]

\* manifest.json: absent, or empty, or holding a manifest, or holding the
\* mixed text of two writes
NoFile == [state |-> "absent", m |-> NullManifest, len |-> 0]

\* (variant: the file opened for writing without truncation)
OpenedBinKept(f) == [exists |-> TRUE, bytes |-> f.bytes]

\* (variant: manifest.json opened for writing without truncation)
OpenedManifestKept(f) ==
    [state |-> IF f.state = "absent" THEN "empty" ELSE f.state, m |-> f.m, len |-> f.len]

\* open(path, "wb") / open(path, "w"): the file is there and empty
TruncatedBin(f) == [exists |-> TRUE, bytes |-> <<>>]
TruncatedManifest(f) == [state |-> "empty", m |-> NullManifest, len |-> 0]

\* f.write(data) on a handle opened at offset 0: the data replaces the
\* first Len(data) bytes of whatever the file holds by now
WrittenBin(f, data) ==
    [exists |-> TRUE, bytes |-> data \o From(f.bytes, Len(data) + 1)]

WrittenManifest(f, m) ==
    IF JsonLen(m) >= f.len
    THEN [state |-> "json", m |-> m, len |-> JsonLen(m)]
    ELSE [state |-> "garbled", m |-> NullManifest, len |-> f.len]

----------------------------------------------------------------------------
\* server.py, Handler.do_POST: responses

NoResponse == [code |-> 0]
NotFound == [code |-> 404, error |-> "not found"]
NoFirmwareResp == [code |-> 400, error |-> "no firmware"]
ServerError(msg) == [code |-> 500, error |-> msg]

\* (variant: the digest and the size taken from the file on disk)
OkFromDisk(fd) ==
    [code |-> 200, status |-> "ok", md5 |-> MD5(fileBin.bytes), size |-> Len(fileBin.bytes)]

\* lines 55 and 73: md5 and len() of the handler's own firmware_data
Ok(fd) == [code |-> 200, status |-> "ok", md5 |-> MD5(fd.val), size |-> Len(fd.val)]

\* do_GET's answer to /health
HealthOk == [code |-> 200, status |-> "ok"]

\* BaseHTTPRequestHandler's answer to a method the class has no do_ method
\* for: send_error(501), an HTML page
Unsupported == [code |-> 501, html |-> "Unsupported method"]

----------------------------------------------------------------------------
\* server.py: the handler threads

Threads == {1, 2}

\* the steps of do_POST that touch a file
FileSteps == {"open_bin", "write_bin", "open_manifest", "write_manifest"}

\* the threads that are inside do_POST
InFlight == {t \in Threads : pc[t] \in FileSteps \cup {"respond"}}

\* (variant: HTTPServer, which handles one connection at a time)
CanAcceptOneAtATime(busy) == busy = {}

\* ThreadingHTTPServer: each connection gets a thread of its own, whatever
\* the other threads are doing
CanAccept(busy) == TRUE

\* the threads between the first file access of do_POST and its last
Writing == {t \in Threads : pc[t] \in {"write_bin", "open_manifest", "write_manifest"}}

\* (variant: a lock held from the first file access to the last)
MayTouchFilesLocked(t, writing) == writing \subseteq {t}

\* lines 57-70: the file accesses of do_POST take no lock
MayTouchFiles(t, writing) == TRUE

\* (variant: the manifest written first)
StepAfterManifestFirst(p) ==
    CASE p = "parse" -> "open_manifest"
      [] p = "write_manifest" -> "open_bin"
      [] p = "write_bin" -> "respond"

\* the order of the statements of do_POST after the parse: lines 57-58, then
\* lines 69-70, then line 73
StepAfter(p) ==
    CASE p = "parse" -> "open_bin"
      [] p = "write_bin" -> "open_manifest"
      [] p = "write_manifest" -> "respond"

NoOther == [method |-> "", path |-> "", resp |-> NoResponse]
NoUpload == [set |-> FALSE, md5 |-> MD5(<<>>), size |-> 0]

ServerInit(active) ==
    /\ fileBin = [exists |-> FALSE, bytes |-> <<>>]
    /\ manifest = NoFile
    /\ pc = [t \in Threads |-> IF t \in active THEN "idle" ELSE "off"]
    /\ req = [t \in Threads |-> NoRequest]
    /\ firmware_data = [t \in Threads |-> None]
    /\ form_data = [t \in Threads |-> EmptyForm]
    /\ resp = [t \in Threads |-> NoResponse]
    /\ replaced = [t \in Threads |-> FALSE]
    /\ other = NoOther
    /\ wlog = [t \in Threads |-> <<>>]
    /\ lastOk = NoUpload

\* the handler answers and returns
Answer(t, r, response) ==
    /\ pc' = [pc EXCEPT ![t] = "answered"]
    /\ req' = [req EXCEPT ![t] = r]
    /\ resp' = [resp EXCEPT ![t] = response]

\* do_POST up to the first file access: the path check, the parse, the
\* `if not firmware_data` check
Receive(t, r) ==
    /\ pc[t] = "idle"
    /\ CanAccept(InFlight)
    /\ UNCHANGED <<cliVars, inspVars>>
    /\ UNCHANGED <<other, wlog, lastOk>>
    /\ IF r.path # "/upload"
       THEN /\ Answer(t, r, NotFound)
            /\ UNCHANGED <<fileBin, manifest, firmware_data, form_data, replaced>>
       ELSE IF Len(CtPieces(r.ctype)) < 2
       THEN /\ Answer(t, r, ServerError("list index out of range"))
            /\ UNCHANGED <<fileBin, manifest, firmware_data, form_data, replaced>>
       ELSE LET parsed == Parse(r)
            IN  /\ firmware_data' = [firmware_data EXCEPT ![t] = parsed.firmware_data]
                /\ form_data' = [form_data EXCEPT ![t] = parsed.form_data]
                /\ IF NoFirmware(parsed.firmware_data)
                   THEN /\ Answer(t, r, NoFirmwareResp)
                        /\ UNCHANGED replaced
                   ELSE /\ pc' = [pc EXCEPT ![t] = StepAfter("parse")]
                        /\ req' = [req EXCEPT ![t] = r]
                        /\ replaced' = [replaced EXCEPT ![t] =
                               /\ fileBin.exists
                               /\ manifest.state = "json"
                               /\ fileBin.bytes # parsed.firmware_data.val
                               /\ manifest.m # ServerManifest(parsed.firmware_data,
                                                              parsed.form_data)]
                        /\ UNCHANGED resp
                /\ UNCHANGED <<fileBin, manifest>>

\* with open(".../firmware.bin", "wb") as f
OpenBin(t) ==
    /\ pc[t] = "open_bin"
    /\ MayTouchFiles(t, Writing)
    /\ UNCHANGED <<cliVars, inspVars>>
    /\ fileBin' = TruncatedBin(fileBin)
    /\ pc' = [pc EXCEPT ![t] = "write_bin"]
    /\ wlog' = [wlog EXCEPT ![t] = Append(@, <<"open", "firmware.bin">>)]
    /\ UNCHANGED <<manifest, req, firmware_data, form_data, resp, replaced,
                   other, lastOk>>

\* f.write(firmware_data), and the close
WriteBin(t) ==
    /\ pc[t] = "write_bin"
    /\ UNCHANGED <<cliVars, inspVars>>
    /\ fileBin' = WrittenBin(fileBin, firmware_data[t].val)
    /\ pc' = [pc EXCEPT ![t] = StepAfter("write_bin")]
    /\ wlog' = [wlog EXCEPT ![t] = Append(@, <<"write", "firmware.bin">>)]
    /\ UNCHANGED <<manifest, req, firmware_data, form_data, resp, replaced,
                   other, lastOk>>

\* with open(".../manifest.json", "w") as f
OpenManifest(t) ==
    /\ pc[t] = "open_manifest"
    /\ MayTouchFiles(t, Writing)
    /\ UNCHANGED <<cliVars, inspVars>>
    /\ manifest' = TruncatedManifest(manifest)
    /\ pc' = [pc EXCEPT ![t] = "write_manifest"]
    /\ wlog' = [wlog EXCEPT ![t] = Append(@, <<"open", "manifest.json">>)]
    /\ UNCHANGED <<fileBin, req, firmware_data, form_data, resp, replaced,
                   other, lastOk>>

\* json.dump(manifest, f, indent=2), and the close
WriteManifest(t) ==
    /\ pc[t] = "write_manifest"
    /\ UNCHANGED <<cliVars, inspVars>>
    /\ manifest' = WrittenManifest(manifest,
                                   ServerManifest(firmware_data[t], form_data[t]))
    /\ pc' = [pc EXCEPT ![t] = StepAfter("write_manifest")]
    /\ wlog' = [wlog EXCEPT ![t] = Append(@, <<"write", "manifest.json">>)]
    /\ UNCHANGED <<fileBin, req, firmware_data, form_data, resp, replaced,
                   other, lastOk>>

\* self._json(200, {"status": "ok", "md5": md5, "size": len(firmware_data)})
Respond(t) ==
    /\ pc[t] = "respond"
    /\ UNCHANGED <<cliVars, inspVars>>
    /\ resp' = [resp EXCEPT ![t] = Ok(firmware_data[t])]
    /\ pc' = [pc EXCEPT ![t] = "answered"]
    /\ lastOk' = [set |-> TRUE, md5 |-> MD5(firmware_data[t].val),
                  size |-> Len(firmware_data[t].val)]
    /\ UNCHANGED <<fileBin, manifest, req, firmware_data, form_data, replaced,
                   other, wlog>>

\* the handler has returned; the thread waits for its next request
Finish(t) ==
    /\ pc[t] = "answered"
    /\ UNCHANGED <<cliVars, inspVars>>
    /\ pc' = [pc EXCEPT ![t] = "idle"]
    /\ req' = [req EXCEPT ![t] = NoRequest]
    /\ firmware_data' = [firmware_data EXCEPT ![t] = None]
    /\ form_data' = [form_data EXCEPT ![t] = EmptyForm]
    /\ resp' = [resp EXCEPT ![t] = NoResponse]
    /\ replaced' = [replaced EXCEPT ![t] = FALSE]
    /\ wlog' = [wlog EXCEPT ![t] = <<>>]
    /\ UNCHANGED <<fileBin, manifest, other, lastOk>>

\* the methods a client may send other than POST, and the paths
Methods == {"GET", "PUT", "DELETE", "HEAD"}
Paths == {"/health", "/upload", "/other"}

\* the class defines do_GET and do_POST only
HasHandler(method) == method \in {"GET", "POST"}

\* do_GET, lines 17-21
GetResponse(path) == IF path = "/health" THEN HealthOk ELSE NotFound

\* a request that is not a POST, handled from start to end: do_GET, or the
\* base class's answer to a method without a handler.  It reads and writes
\* no file.
Handle(method, path) ==
    /\ CanAccept(InFlight)
    /\ other' = [method |-> method, path |-> path,
                 resp |-> IF HasHandler(method) THEN GetResponse(path) ELSE Unsupported]
    /\ UNCHANGED <<fileBin, manifest, pc, req, firmware_data, form_data, resp,
                   replaced, wlog, lastOk>>
    /\ UNCHANGED <<cliVars, inspVars>>

\* the client has read the answer
FinishOther ==
    /\ other # NoOther
    /\ other' = NoOther
    /\ UNCHANGED <<fileBin, manifest, pc, req, firmware_data, form_data, resp,
                   replaced, wlog, lastOk>>
    /\ UNCHANGED <<cliVars, inspVars>>

\* what a file access of thread t leaves behind when it is cut short: an
\* open that fails changes nothing, a write that fails has written some
\* leading part of its data
CutShort(t) ==
    CASE pc[t] = "write_bin" ->
            /\ \E k \in 0..(Len(firmware_data[t].val) - 1) :
                   fileBin' = WrittenBin(fileBin, SubSeq(firmware_data[t].val, 1, k))
            /\ UNCHANGED manifest
      [] pc[t] = "write_manifest" ->
            /\ \E k \in 0..(JsonLen(ServerManifest(firmware_data[t], form_data[t])) - 1) :
                   manifest' = IF k = 0 /\ manifest.len = 0 THEN manifest
                               ELSE [state |-> "garbled", m |-> NullManifest,
                                     len |-> IF k > manifest.len THEN k ELSE manifest.len]
            /\ UNCHANGED fileBin
      [] OTHER -> UNCHANGED <<fileBin, manifest>>

\* lines 75-77: a file access raises (OSError), do_POST answers 500
IoError(t) ==
    /\ pc[t] \in FileSteps
    /\ CutShort(t)
    /\ wlog' = [wlog EXCEPT ![t] = Append(@, <<"error", pc[t]>>)]
    /\ pc' = [pc EXCEPT ![t] = "answered"]
    /\ resp' = [resp EXCEPT ![t] = ServerError("OSError")]
    /\ UNCHANGED <<req, firmware_data, form_data, replaced, other, lastOk>>
    /\ UNCHANGED <<cliVars, inspVars>>

\* the server process is killed while thread t is at a file access: no
\* thread takes another step
Crash(t) ==
    /\ pc[t] \in FileSteps
    /\ CutShort(t)
    /\ wlog' = [wlog EXCEPT ![t] = Append(@, <<"killed", pc[t]>>)]
    /\ pc' = [u \in Threads |-> IF pc[u] = "off" THEN "off" ELSE "dead"]
    /\ UNCHANGED <<req, firmware_data, form_data, resp, replaced, other, lastOk>>
    /\ UNCHANGED <<cliVars, inspVars>>

----------------------------------------------------------------------------
\* deploy_ota.py: the build environment

\* a string is a sequence of characters
Str_ota == <<"o", "t", "a">>
Str_OTA_padded == <<" ", "O", "T", "A", " ">>
Str_serial == <<"s", "e", "r", "i", "a", "l">>
Str_uart == <<"u", "a", "r", "t">>

Whitespace == {" ", "\t", "\n", "\r"}

\* str.strip()
RECURSIVE LStrip(_, _)
LStrip(s, chars) ==
    IF s # <<>> /\ s[1] \in chars THEN LStrip(From(s, 2), chars) ELSE s

Strip(s) == LStrip(RStrip(s, Whitespace), Whitespace)

\* str.lower()
LowerChar(c) ==
    CASE c = "O" -> "o"
      [] c = "T" -> "t"
      [] c = "A" -> "a"
      [] OTHER -> c

Lower(s) == [i \in 1..Len(s) |-> LowerChar(s[i])]

\* x or y, on strings
OrElse(x, y) == IF x # <<>> THEN x ELSE y

\* env.GetProjectOption(name, default) and os.getenv(name, default)
GetProjectOption(opt, default) == IF opt.set THEN opt.val ELSE default
Getenv(var, default) == IF var.set THEN var.val ELSE default

\* (variant: the project option first)
FlashMethodOptionFirst(c) ==
    Lower(Strip(OrElse(GetProjectOption(c.optFlash, <<>>), Getenv(c.envFlash, Str_serial))))

\* line 138: the flash method deploy_firmware works with
FlashMethod(c) ==
    Lower(Strip(Getenv(c.envFlash,
                       OrElse(GetProjectOption(c.optFlash, Str_serial), Str_serial))))

\* select_upload.py, lines 18-19
normalize(value) == Lower(Strip(value))

\* (variant: the value compared as it is, not normalised)
SelectMethodAsGiven(c) ==
    Getenv(c.envFlash, OrElse(GetProjectOption(c.optFlash, Str_serial), Str_serial))

\* select_upload.py, line 22: the flash method select_upload works with
SelectMethod(c) ==
    normalize(Getenv(c.envFlash,
                     OrElse(GetProjectOption(c.optFlash, Str_serial), Str_serial)))

\* (variant: the environment variable first)
ServerUrlEnvFirst(c) ==
    OrElse(Getenv(c.envUrl, <<>>), GetProjectOption(c.optUrl, <<>>))

\* line 171: the server URL deploy_firmware works with
ServerUrl(c) ==
    OrElse(GetProjectOption(c.optUrl, <<>>), Getenv(c.envUrl, <<>>))

\* (variant: every method but serial posts)
IsOtaNotSerial(method) == method # Str_serial

\* line 170: `if flash_method == "ota"`
IsOta(method) == method = Str_ota

\* a firmware whose size takes two digits
TenBytes == [i \in 1..10 |-> "a"]

\* a character outside ASCII
Ch_eacute == "U+00E9"

\* the firmware versions of the builds: plain, and with the characters a
\* JSON string writes as escapes
ClientVersions ==
    {<<"1", ".", "2">>, <<"\"", "1", "\"">>, <<"\\", "n">>, <<Ch_eacute, "\n">>}

\* the builds the hook may run in
Configs ==
    [envFlash : {None, Some(<<>>), Some(Str_OTA_padded), Some(Str_serial)},
     optFlash : {None, Some(<<>>), Some(Str_ota), Some(Str_uart)},
     optUrl : {None, Some(<<"http://a:8081/upload">>)},
     envUrl : {None, Some(<<"http://b:8081/upload">>)},
     HAS_REQUESTS : BOOLEAN,
     built : {None, Some(<<"a">>), Some(<<"a", LF>>)},
     version : {<<"1">>},
     board : {<<"x">>}]

\* builds that post, with the versions, boards and sizes that matter to the
\* text of the manifest
ManifestConfigs ==
    [envFlash : {None},
     optFlash : {Some(Str_ota)},
     optUrl : {Some(<<"http://a:8081/upload">>)},
     envUrl : {None},
     HAS_REQUESTS : {TRUE},
     built : {Some(<<"a">>), Some(TenBytes)},
     version : ClientVersions,
     board : {<<"x">>, <<"\"">>}]

\* the manifest dict of deploy_firmware (without its timestamp)
ClientManifest(c) ==
    [version |-> c.version,
     file |-> "firmware.bin",
     md5 |-> MD5(c.built.val),
     size |-> Len(c.built.val),
     board |-> c.board]

----------------------------------------------------------------------------
\* deploy_ota.py, line 167: json.dumps(manifest, indent=2), and json.loads,
\* which reads such a text back.  A text is a sequence of characters; a key,
\* and the file name, each stand as one character.

\* hexdigest(): the digest as text, two hexadecimal digits per byte it was
\* computed from (which keeps different digests different)
HexOf(byte) ==
    CASE byte = "a" -> <<"6", "1">>
      [] byte = CR -> <<"0", "d">>
      [] byte = LF -> <<"0", "a">>
      [] byte = Dash -> <<"2", "d">>

\* the strings of ss, from the i-th on, joined
RECURSIVE FlattenFrom(_, _)
FlattenFrom(ss, i) == IF i > Len(ss) THEN <<>> ELSE ss[i] \o FlattenFrom(ss, i + 1)

Flatten(ss) == FlattenFrom(ss, 1)

DigestText(digest) == Flatten([i \in 1..Len(digest[2]) |-> HexOf(digest[2][i])])

\* (variant: a backslash written as it is)
EscapeCharNoBackslash(c) ==
    CASE c = "\"" -> <<"\\", "\"">>
      [] c = "\n" -> <<"\\", "n">>
      [] c = "\t" -> <<"\\", "t">>
      [] c = Ch_eacute -> <<"\\", "u", "0", "0", "e", "9">>
      [] OTHER -> <<c>>

\* json.dumps of one character of a string (ensure_ascii is on)
EscapeChar(c) ==
    CASE c = "\"" -> <<"\\", "\"">>
      [] c = "\\" -> <<"\\", "\\">>
      [] c = "\n" -> <<"\\", "n">>
      [] c = "\t" -> <<"\\", "t">>
      [] c = Ch_eacute -> <<"\\", "u", "0", "0", "e", "9">>
      [] OTHER -> <<c>>

\* json.dumps of a string
JsonString(s) ==
    <<"\"">> \o Flatten([i \in 1..Len(s) |-> EscapeChar(s[i])]) \o <<"\"">>

DigitChars == <<"0", "1", "2", "3", "4", "5", "6", "7", "8", "9">>

\* json.dumps of an int that is not negative
RECURSIVE JsonInt(_)
JsonInt(n) ==
    IF n < 10 THEN <<DigitChars[n + 1]>>
    ELSE JsonInt(n \div 10) \o <<DigitChars[(n % 10) + 1]>>

\* one member of the object, on a line of its own, indented by two
Member(key, valueText, last) ==
    <<"\n", " ", " ">> \o JsonString(<<key>>) \o <<":", " ">> \o valueText
        \o (IF last THEN <<>> ELSE <<",">>)

\* json.dumps(manifest, indent=2) (the timestamp left out, as in the dict)
JsonDumps(m) ==
    <<"{">>
    \o Member("version", JsonString(m.version), FALSE)
    \o Member("file", JsonString(<<m.file>>), FALSE)
    \o Member("md5", JsonString(DigestText(m.md5)), FALSE)
    \o Member("size", JsonInt(m.size), FALSE)
    \o Member("board", JsonString(m.board), TRUE)
    \o <<"\n", "}">>

\* the character at position i, "EOF" past the end
At(s, i) == IF i >= 1 /\ i <= Len(s) THEN s[i] ELSE "EOF"

RECURSIVE SkipWs(_, _)
SkipWs(s, i) == IF At(s, i) \in {" ", "\n", "\t"} THEN SkipWs(s, i + 1) ELSE i

\* json.loads: the character an escape stands for
UnescapeChar(c) ==
    CASE c = "n" -> "\n"
      [] c = "t" -> "\t"
      [] OTHER -> c

UnescapeU(hex) == IF hex = <<"0", "0", "e", "9">> THEN Ch_eacute ELSE "U+????"

\* json.loads: a string, from the character after its opening quote
RECURSIVE ParseStringBody(_, _, _)
ParseStringBody(s, j, acc) ==
    LET c == At(s, j)
    IN  IF c = "EOF" \/ c = "\"" THEN [val |-> acc, next |-> j + 1]
        ELSE IF c = "\\"
        THEN IF At(s, j + 1) = "u"
             THEN ParseStringBody(s, j + 6, Append(acc, UnescapeU(SubSeq(s, j + 2, j + 5))))
             ELSE ParseStringBody(s, j + 2, Append(acc, UnescapeChar(At(s, j + 1))))
        ELSE ParseStringBody(s, j + 1, Append(acc, c))

DigitValue(c) == CHOOSE d \in 0..9 : DigitChars[d + 1] = c

\* json.loads: an int
RECURSIVE ParseInt(_, _, _)
ParseInt(s, j, acc) ==
    IF At(s, j) \in {DigitChars[d] : d \in 1..10}
    THEN ParseInt(s, j + 1, acc * 10 + DigitValue(At(s, j)))
    ELSE [val |-> acc, next |-> j]

ParseValue(s, j) ==
    IF At(s, j) = "\"" THEN ParseStringBody(s, j + 1, <<>>) ELSE ParseInt(s, j, 0)

\* json.loads: the members of an object, from the character after the brace;
\* acc maps the keys read so far to their values
RECURSIVE ParseMembers(_, _, _)
ParseMembers(s, j, acc) ==
    LET keyAt == SkipWs(s, j)
    IN  IF At(s, keyAt) # "\"" THEN acc
        ELSE LET key == ParseStringBody(s, keyAt + 1, <<>>)
                 colonAt == SkipWs(s, key.next)
                 value == ParseValue(s, SkipWs(s, colonAt + 1))
                 after == SkipWs(s, value.next)
                 acc2 == (key.val :> value.val) @@ acc
             IN  IF At(s, after) = "," THEN ParseMembers(s, after + 1, acc2) ELSE acc2

\* json.loads(text), for a text that holds one object
JsonLoads(s) ==
    LET start == SkipWs(s, 1)
    IN  IF At(s, start) = "{" THEN ParseMembers(s, start + 1, [k \in {} |-> k])
        ELSE [k \in {} |-> k]

----------------------------------------------------------------------------
\* deploy_ota.py, post_firmware_to_server: one attempt

max_retries == 3

\* what an attempt can run into: the status of the response, or an exception
\* of requests.post, or an exception before the POST is made (read_bytes)
Status(code) == [kind |-> "status", code |-> code]
Raises(kind) == [kind |-> kind, code |-> 0]

Outcomes ==
    {Status(200), Status(201), Status(500),
     Raises("Timeout"), Raises("ConnectionError"), Raises("RequestException"),
     Raises("OSError")}

\* the attempt got as far as requests.post
MadePost(o) == o.kind # "OSError"

\* (variant: `if response.status_code == 200`)
IsSuccessOnly200(o) == o.kind = "status" /\ o.code = 200

\* line 92: `if response.status_code in (200, 201)`
IsSuccess(o) == o.kind = "status" /\ o.code \in {200, 201}

\* (variant: no `except Exception` clause)
ExceptClauseNoCatchAll(kind) ==
    CASE kind = "Timeout" -> "Timeout"
      [] kind = "ConnectionError" -> "ConnectionError"
      [] OTHER -> "uncaught"

\* (variant: no `except ConnectionError` clause)
ExceptClauseNoConnectionError(kind) ==
    CASE kind = "Timeout" -> "Timeout"
      [] OTHER -> "Exception"

\* lines 103-115: the except clause that takes an exception
ExceptClause(kind) ==
    CASE kind = "Timeout" -> "Timeout"
      [] kind = "ConnectionError" -> "ConnectionError"
      [] OTHER -> "Exception"

\* (variant: range(1, max_retries + 2))
LastAttemptPlusOne == max_retries + 1

\* (variant: range(1, max_retries))
LastAttemptMinusOne == max_retries - 1

\* line 78: the last value of `for attempt in range(1, max_retries + 1)`
LastAttempt == max_retries

\* lines 92-101: what the loop body does with a response
AfterStatus(o, a) ==
    IF IsSuccess(o) THEN "return True 94"
    ELSE IF a < max_retries THEN "continue"
    ELSE "return False 101"

\* lines 103-117: what the loop body does with an exception
AfterException(o, a) ==
    CASE ExceptClause(o.kind) = "Timeout" ->
            IF a < max_retries THEN "continue" ELSE "end of body"
      [] ExceptClause(o.kind) = "ConnectionError" ->
            IF a < max_retries THEN "continue" ELSE "end of body"
      [] ExceptClause(o.kind) = "Exception" -> "return False 117"
      [] OTHER -> "raise"

AfterAttempt(o, a) ==
    IF o.kind = "status" THEN AfterStatus(o, a) ELSE AfterException(o, a)

----------------------------------------------------------------------------
\* deploy_ota.py: deploy_firmware and post_firmware_to_server, step by step

NoLocalFile == [exists |-> FALSE, bytes |-> <<>>]
NoLocalManifest == [exists |-> FALSE, m |-> NullManifest, text |-> <<>>]
NoNet == [connect |-> 0, get |-> 0, post |-> 0]
NoProbes == [socket |-> "none", health |-> "none"]

\* the hook is not running (the specifications of the server alone)
ClientOff ==
    /\ cfg = [envFlash |-> None, optFlash |-> None, optUrl |-> None, envUrl |-> None,
              HAS_REQUESTS |-> FALSE, built |-> None, version |-> <<>>, board |-> <<>>]
    /\ cpc = "off"
    /\ localBin = NoLocalFile
    /\ localManifest = NoLocalManifest
    /\ probes = NoProbes
    /\ attempt = 0
    /\ outcomes = <<>>
    /\ net = NoNet
    /\ postResult = "none"
    /\ retLine = 0
    /\ raised = FALSE
    /\ server_url = None
    /\ UPLOADCMD = "default"

ClientInit ==
    /\ cfg \in Configs \cup ManifestConfigs
    /\ cpc = "select"
    /\ localBin = NoLocalFile
    /\ localManifest = NoLocalManifest
    /\ probes = NoProbes
    /\ attempt = 0
    /\ outcomes = <<>>
    /\ net = NoNet
    /\ postResult = "none"
    /\ retLine = 0
    /\ raised = FALSE
    /\ server_url = None
    /\ UPLOADCMD = "default"

\* select_upload.py, lines 22-32, run when the build environment is set up:
\* for "ota" the upload command is replaced, for every other method it stays
SelectUpload ==
    /\ cpc = "select"
    /\ UPLOADCMD' = IF SelectMethod(cfg) = Str_ota THEN "disabled" ELSE "default"
    /\ cpc' = "deploy"
    /\ UNCHANGED <<cfg, localBin, localManifest, probes, attempt, outcomes, net,
                   postResult, retLine, raised, server_url>>
    /\ UNCHANGED <<srvVars, inspVars>>

\* lines 127-130: `if not firmware_path.exists(): return`
DeployCheck ==
    /\ cpc = "deploy"
    /\ cpc' = IF cfg.built.set THEN "copy" ELSE "done"
    /\ UNCHANGED <<cfg, localBin, localManifest, probes, attempt, outcomes, net,
                   postResult, retLine, raised>>
    /\ UNCHANGED <<server_url, UPLOADCMD>>
    /\ UNCHANGED <<srvVars, inspVars>>

\* lines 132-148: shutil.copy(firmware_path, dest_firmware)
StageCopy ==
    /\ cpc = "copy"
    /\ localBin' = [exists |-> TRUE, bytes |-> cfg.built.val]
    /\ cpc' = "manifest"
    /\ UNCHANGED <<cfg, localManifest, probes, attempt, outcomes, net,
                   postResult, retLine, raised>>
    /\ UNCHANGED <<server_url, UPLOADCMD>>
    /\ UNCHANGED <<srvVars, inspVars>>

\* lines 150-167: manifest_path.write_text(json.dumps(manifest, indent=2))
StageManifest ==
    /\ cpc = "manifest"
    /\ localManifest' = [exists |-> TRUE, m |-> ClientManifest(cfg),
                         text |-> JsonDumps(ClientManifest(cfg))]
    /\ cpc' = "branch"
    /\ UNCHANGED <<cfg, localBin, probes, attempt, outcomes, net,
                   postResult, retLine, raised>>
    /\ UNCHANGED <<server_url, UPLOADCMD>>
    /\ UNCHANGED <<srvVars, inspVars>>

\* lines 170-175, and lines 44-47 of post_firmware_to_server
DeployBranch ==
    /\ cpc = "branch"
    /\ IF IsOta(FlashMethod(cfg)) /\ ServerUrl(cfg) # <<>>
       THEN /\ server_url' = Some(ServerUrl(cfg))
            /\ IF cfg.HAS_REQUESTS
               THEN /\ cpc' = "socket"
                    /\ UNCHANGED <<postResult, retLine>>
               ELSE /\ cpc' = "returned"
                    /\ postResult' = "False"
                    /\ retLine' = 47
       ELSE /\ cpc' = "done"
            /\ UNCHANGED <<postResult, retLine, server_url>>
    /\ UNCHANGED <<cfg, localBin, localManifest, probes, attempt, outcomes, net, raised>>
    /\ UNCHANGED UPLOADCMD
    /\ UNCHANGED <<srvVars, inspVars>>

\* (variant: a probe that fails ends the upload)
AfterProbeFailFast(r) == IF r = "failed" THEN "return False" ELSE "go on"

\* lines 63-64 and 71-72: `except Exception` around each probe; whatever the
\* probe comes to is printed, and the function goes on
AfterProbe(r) == "go on"

\* lines 53-64: socket.create_connection, any exception caught and logged
SocketProbe ==
    /\ cpc = "socket"
    /\ \E r \in {"ok", "failed"} :
           /\ probes' = [probes EXCEPT !.socket = r]
           /\ IF AfterProbe(r) = "go on"
              THEN /\ cpc' = "health"
                   /\ UNCHANGED <<postResult, retLine>>
              ELSE /\ cpc' = "returned"
                   /\ postResult' = "False"
                   /\ retLine' = 64
    /\ net' = [net EXCEPT !.connect = @ + 1]
    /\ UNCHANGED <<cfg, localBin, localManifest, attempt, outcomes, raised>>
    /\ UNCHANGED <<server_url, UPLOADCMD>>
    /\ UNCHANGED <<srvVars, inspVars>>

\* lines 67-76: requests.get(health_url), any exception caught and logged;
\* then the loop starts
HealthProbe ==
    /\ cpc = "health"
    /\ \E r \in {"200", "other status", "failed"} :
           /\ probes' = [probes EXCEPT !.health = r]
           /\ IF AfterProbe(r) = "go on"
              THEN /\ attempt' = 1
                   /\ cpc' = "attempt"
                   /\ UNCHANGED <<postResult, retLine>>
              ELSE /\ cpc' = "returned"
                   /\ postResult' = "False"
                   /\ retLine' = 72
                   /\ UNCHANGED attempt
    /\ net' = [net EXCEPT !.get = @ + 1]
    /\ UNCHANGED <<cfg, localBin, localManifest, outcomes, raised>>
    /\ UNCHANGED <<server_url, UPLOADCMD>>
    /\ UNCHANGED <<srvVars, inspVars>>

\* lines 78-121: one round of the loop, and what follows the loop when this
\* was its last round
Attempt(o) ==
    /\ cpc = "attempt"
    /\ outcomes' = Append(outcomes, o)
    /\ net' = IF MadePost(o) THEN [net EXCEPT !.post = @ + 1] ELSE net
    /\ LET next == AfterAttempt(o, attempt)
       IN  CASE next = "return True 94" ->
                   /\ postResult' = "True"
                   /\ retLine' = 94
                   /\ cpc' = "returned"
                   /\ UNCHANGED <<attempt, raised>>
             [] next = "return False 101" ->
                   /\ postResult' = "False"
                   /\ retLine' = 101
                   /\ cpc' = "returned"
                   /\ UNCHANGED <<attempt, raised>>
             [] next = "return False 117" ->
                   /\ postResult' = "False"
                   /\ retLine' = 117
                   /\ cpc' = "returned"
                   /\ UNCHANGED <<attempt, raised>>
             [] next \in {"continue", "end of body"} ->
                   IF attempt < LastAttempt
                   THEN /\ attempt' = attempt + 1
                        /\ UNCHANGED <<cpc, postResult, retLine, raised>>
                   ELSE /\ postResult' = "False"
                        /\ retLine' = 121
                        /\ cpc' = "returned"
                        /\ UNCHANGED <<attempt, raised>>
             [] OTHER ->
                   \* no except clause takes it: it leaves deploy_firmware too
                   /\ raised' = TRUE
                   /\ cpc' = "done"
                   /\ UNCHANGED <<attempt, postResult, retLine>>
    /\ UNCHANGED <<cfg, localBin, localManifest, probes>>
    /\ UNCHANGED <<server_url, UPLOADCMD>>
    /\ UNCHANGED <<srvVars, inspVars>>

\* line 173 returns (its value dropped), line 177, deploy_firmware returns
DeployReturn ==
    /\ cpc = "returned"
    /\ cpc' = "done"
    /\ UNCHANGED <<cfg, localBin, localManifest, probes, attempt, outcomes, net,
                   postResult, retLine, raised>>
    /\ UNCHANGED <<server_url, UPLOADCMD>>
    /\ UNCHANGED <<srvVars, inspVars>>

----------------------------------------------------------------------------
\* esp_fs_inspector.py, ESPFilesystemInspector.send_command.  A line is a
\* sequence of characters in which the prefix and the end marker each stand
\* as one character.

RESPONSE_PREFIX == "FS_RESP:"
RESPONSE_END == "FS_END"

\* self.timeout, in ticks of the clock
timeout == 2

\* the most lines the device sends during one call
MaxLines == 3

\* the end of a line as the device writes it
EOL == <<"\r", "\n">>

\* the lines the device may send: responses (one with a blank at the end of
\* its payload, one without payload), the end marker (also after a blank,
\* and with something after it), and a line of its log
DeviceLines ==
    {<<RESPONSE_PREFIX, "a">> \o EOL,
     <<RESPONSE_PREFIX, "b", " ">> \o EOL,
     <<RESPONSE_PREFIX>> \o EOL,
     <<RESPONSE_END>> \o EOL,
     <<" ", RESPONSE_END>> \o EOL,
     <<RESPONSE_END, "x">> \o EOL,
     <<"boot">> \o EOL}

\* line.startswith(self.RESPONSE_PREFIX)
StartsWithPrefix(line) == line # <<>> /\ line[1] = RESPONSE_PREFIX

\* (variant: the end marker taken whether or not a response line came)
IsEndAnyTime(line, found) == line = <<RESPONSE_END>>

\* line 93: `line == self.RESPONSE_END and found_response`
IsEnd(line, found) == line = <<RESPONSE_END>> /\ found

\* sep.join(strings), from the i-th string on
RECURSIVE JoinFrom(_, _, _)
JoinFrom(strings, sep, i) ==
    IF i > Len(strings) THEN <<>>
    ELSE IF i = Len(strings) THEN strings[i]
    ELSE strings[i] \o <<sep>> \o JoinFrom(strings, sep, i + 1)

Join(strings, sep) == JoinFrom(strings, sep, 1)

\* send_command is not running (the specifications of the other tools)
InspectorOff ==
    /\ is_open = FALSE
    /\ ipc = "off"
    /\ in_waiting = <<>>
    /\ sent = 0
    /\ clock = 0
    /\ response_lines = <<>>
    /\ found_response = FALSE
    /\ result = None
    /\ heard = <<>>

\* send_command is called, on a port that is open or not
InspectorInit ==
    /\ is_open \in BOOLEAN
    /\ ipc = "call"
    /\ in_waiting = <<>>
    /\ sent = 0
    /\ clock = 0
    /\ response_lines = <<>>
    /\ found_response = FALSE
    /\ result = None
    /\ heard = <<>>

\* the device writes a line, which lands in the input buffer whole
DeviceSends(l) ==
    /\ is_open
    /\ ipc \in {"call", "loop"}
    /\ sent < MaxLines
    /\ in_waiting' = Append(in_waiting, l)
    /\ sent' = sent + 1
    /\ UNCHANGED <<is_open, ipc, clock, response_lines, found_response, result, heard>>
    /\ UNCHANGED <<srvVars, cliVars>>

\* lines 69-84: the check of the port, reset_input_buffer, the write of the
\* command, and the locals set up
SendCommand ==
    /\ ipc = "call"
    /\ IF ~is_open
       THEN /\ result' = None
            /\ ipc' = "done"
            /\ UNCHANGED <<in_waiting, clock, response_lines, found_response>>
       ELSE /\ in_waiting' = <<>>
            /\ clock' = 0
            /\ response_lines' = <<>>
            /\ found_response' = FALSE
            /\ ipc' = "loop"
            /\ UNCHANGED result
    /\ UNCHANGED <<is_open, sent, heard>>
    /\ UNCHANGED <<srvVars, cliVars>>

\* time passes while the loop runs
Tick ==
    /\ ipc = "loop"
    /\ clock < timeout
    /\ clock' = clock + 1
    /\ UNCHANGED <<is_open, ipc, in_waiting, sent, response_lines, found_response,
                   result, heard>>
    /\ UNCHANGED <<srvVars, cliVars>>

\* lines 86-95: a round of the loop that finds something waiting
ReadLine ==
    /\ ipc = "loop"
    /\ clock < timeout
    /\ in_waiting # <<>>
    /\ LET line == Strip(Head(in_waiting))
       IN  /\ in_waiting' = Tail(in_waiting)
           /\ heard' = Append(heard, [line |-> line, at |-> clock])
           /\ IF StartsWithPrefix(line)
              THEN /\ response_lines' = Append(response_lines, From(line, 2))
                   /\ found_response' = TRUE
                   /\ UNCHANGED <<ipc, result>>
              ELSE IF IsEnd(line, found_response)
              THEN /\ result' = Some(Join(response_lines, "\n"))
                   /\ ipc' = "done"
                   /\ UNCHANGED <<response_lines, found_response>>
              ELSE UNCHANGED <<ipc, result, response_lines, found_response>>
    /\ UNCHANGED <<is_open, sent, clock>>
    /\ UNCHANGED <<srvVars, cliVars>>

\* lines 86 and 97-102: the loop test fails, send_command returns None
TimeOut ==
    /\ ipc = "loop"
    /\ ~(clock < timeout)
    /\ result' = None
    /\ ipc' = "done"
    /\ UNCHANGED <<is_open, in_waiting, sent, clock, response_lines, found_response,
                   heard>>
    /\ UNCHANGED <<srvVars, cliVars>>

NextInspect ==
    \/ \E l \in DeviceLines : DeviceSends(l)
    \/ SendCommand
    \/ Tick
    \/ ReadLine
    \/ TimeOut

\* one call of send_command, against a device that sends any lines at any
\* moments
InitInspect == InspectorInit /\ ServerInit({}) /\ ClientOff

SpecInspect == InitInspect /\ [][NextInspect]_vars

----------------------------------------------------------------------------
\* The specifications of the build hooks

ClientNext ==
    \/ SelectUpload
    \/ DeployCheck
    \/ StageCopy
    \/ StageManifest
    \/ DeployBranch
    \/ SocketProbe
    \/ HealthProbe
    \/ \E o \in Outcomes : Attempt(o)
    \/ DeployReturn

\* the build hook alone, against a transport that answers each attempt in
\* any of the ways it can
InitClient == ClientInit /\ ServerInit({}) /\ InspectorOff

SpecClient == InitClient /\ [][ClientNext]_vars

\* each step of the hook that can be taken is taken in the end: every call
\* it makes returns or raises
FairSpecClient == SpecClient /\ WF_vars(ClientNext)

----------------------------------------------------------------------------
\* The specifications of the server

\* one request at a time (no two handlers overlap); the build hook is not
\* part of this specification
Init == ServerInit({1}) /\ ClientOff /\ InspectorOff

\* no request is being handled and the last answer has been read
Quiet ==
    /\ other = NoOther
    /\ \A t \in Threads : pc[t] \in {"idle", "off"}

\* the client sends its next request once the last one has been answered
NextPost == Quiet /\ \E r \in UploadRequests(Payloads) \cup OtherRequests : Receive(1, r)

NextOther == Quiet /\ \E m \in Methods, p \in Paths : Handle(m, p)

Next ==
    \/ NextPost
    \/ NextOther
    \/ OpenBin(1)
    \/ WriteBin(1)
    \/ OpenManifest(1)
    \/ WriteManifest(1)
    \/ Respond(1)
    \/ Finish(1)
    \/ FinishOther

Spec == Init /\ [][Next]_vars

\* the requests of the specifications below: two uploads that differ in
\* every field, and an upload without a firmware part
UploadA ==
    [path |-> "/upload", ctype |-> CtMultipart, version |-> None, board |-> None,
     firmware |-> Some(<<"a">>)]
UploadB ==
    [path |-> "/upload", ctype |-> CtMultipart, version |-> Some(<<"1">>),
     board |-> Some(<<"x">>), firmware |-> Some(<<Dash, "a">>)]
UploadNothing ==
    [path |-> "/upload", ctype |-> CtMultipart, version |-> None, board |-> None,
     firmware |-> None]

FewRequests == {UploadA, UploadB, UploadNothing}

\* two handler threads at once, each step of one interleaved with the steps
\* of the other, and GET requests at any moment
InitConc == ServerInit({1, 2}) /\ ClientOff /\ InspectorOff

NextConc ==
    \/ \E t \in Threads, r \in FewRequests : Receive(t, r)
    \/ \E t \in Threads : OpenBin(t)
    \/ \E t \in Threads : WriteBin(t)
    \/ \E t \in Threads : OpenManifest(t)
    \/ \E t \in Threads : WriteManifest(t)
    \/ \E t \in Threads : Respond(t)
    \/ \E t \in Threads : Finish(t)
    \/ \E p \in {"/health", "/other"} : Handle("GET", p)
    \/ FinishOther

SpecConc == InitConc /\ [][NextConc]_vars

\* one request at a time, where a file access may fail and the process may
\* be killed
NextPostFew == Quiet /\ \E r \in FewRequests : Receive(1, r)

NextIO ==
    \/ NextPostFew
    \/ OpenBin(1)
    \/ WriteBin(1)
    \/ OpenManifest(1)
    \/ WriteManifest(1)
    \/ Respond(1)
    \/ Finish(1)
    \/ IoError(1)
    \/ Crash(1)

SpecIO == Init /\ [][NextIO]_vars

----------------------------------------------------------------------------
\* Properties of the upload server, one request at a time (Spec)

\* thread t has answered an upload request that had a well-formed header
AnsweredUpload(t) ==
    /\ pc[t] = "answered"
    /\ req[t].path = "/upload"
    /\ req[t].ctype = CtMultipart

\* the firmware part of the request is missing or empty
FirmwareMissing(r) == ~r.firmware.set \/ r.firmware.val = <<>>

\* C1 (as claimed): every upload with a non-empty firmware part is answered
\* 200, the md5 returned and the md5 in the manifest are the MD5 of exactly
\* the bytes sent, the manifest's size is their length and firmware.bin
\* holds exactly those bytes.
C1_ExactBytesStored ==
    \A t \in Threads :
        (AnsweredUpload(t) /\ ~FirmwareMissing(req[t])) =>
            /\ resp[t].code = 200
            /\ resp[t].md5 = MD5(req[t].firmware.val)
            /\ manifest.state = "json"
            /\ manifest.m.md5 = MD5(req[t].firmware.val)
            /\ manifest.m.size = Len(req[t].firmware.val)
            /\ fileBin.bytes = req[t].firmware.val

\* C2: once an upload is answered 200, firmware.bin and every field of the
\* manifest come from that upload alone: the manifest's md5 and size are
\* those of the bytes in firmware.bin and those returned, the bytes are
\* bytes of this request's payload from its start, and version and board
\* are the request's (or the defaults), whatever was staged before.
C2_SingleSlotReplacement ==
    (pc[1] = "answered" /\ resp[1].code = 200) =>
        /\ fileBin.exists
        /\ IsPrefix(fileBin.bytes, req[1].firmware.val)
        /\ manifest.state = "json"
        /\ manifest.m.md5 = MD5(fileBin.bytes)
        /\ manifest.m.size = Len(fileBin.bytes)
        /\ resp[1].md5 = manifest.m.md5
        /\ resp[1].size = manifest.m.size
        /\ manifest.m.version = GetOr(req[1].version, DefaultVersion)
        /\ manifest.m.board = GetOr(req[1].board, DefaultBoard)
        /\ manifest.m.file = "firmware.bin"

\* a second upload was answered 200 over a different staged firmware and
\* manifest
C2_Witness ==
    /\ pc[1] = "answered"
    /\ resp[1].code = 200
    /\ replaced[1]

\* C3: an upload whose firmware part is missing or empty is answered
\* 400 {"error": "no firmware"} by the step that receives it, and that step
\* leaves firmware.bin and manifest.json as they were.
C3_NoFirmwareRejected ==
    [][\A t \in Threads :
          (/\ pc[t] = "idle"
           /\ pc'[t] # "idle"
           /\ req'[t].path = "/upload"
           /\ req'[t].ctype = CtMultipart
           /\ FirmwareMissing(req'[t]))
          => (/\ pc'[t] = "answered"
              /\ resp'[t] = NoFirmwareResp
              /\ fileBin' = fileBin
              /\ manifest' = manifest)]_vars

\* an upload without a firmware part was answered 400 while a firmware and
\* its manifest were staged
C3_Witness ==
    /\ AnsweredUpload(1)
    /\ FirmwareMissing(req[1])
    /\ resp[1] = NoFirmwareResp
    /\ fileBin.exists
    /\ fileBin.bytes # <<>>
    /\ manifest.state = "json"


----------------------------------------------------------------------------
\* Properties of the build hook (SpecClient, FairSpecClient)

Last(s) == s[Len(s)]

\* the attempt got status 200 or 201
Got200or201(o) == o.kind = "status" /\ o.code \in {200, 201}

\* the attempt got another status
GotOtherStatus(o) == o.kind = "status" /\ o.code \notin {200, 201}

\* the attempt ran into a timeout or a connection error
TimedOutOrNoConnection(o) == o.kind \in {"Timeout", "ConnectionError"}

\* the attempt failed in a way that is retried
RetryableFailure(o) == GotOtherStatus(o) \/ TimedOutOrNoConnection(o)

\* the attempt raised another exception
UnexpectedException(o) == o.kind \notin {"status", "Timeout", "ConnectionError"}

\* the loop is about to make attempt k
AboutToAttempt(k) == cpc = "attempt" /\ attempt = k /\ postResult = "none"

\* attempt k is made or about to be made
AttemptFollows(k) == Len(outcomes) >= k \/ AboutToAttempt(k)

\* the POSTs among the attempts made so far
PostsIn(os) == Cardinality({i \in 1..Len(os) : os[i].kind # "OSError"})

\* the local copy and the local manifest of the built firmware are in place
LocallyStaged ==
    /\ localBin = [exists |-> TRUE, bytes |-> cfg.built.val]
    /\ localManifest.exists
    /\ localManifest.m.version = cfg.version
    /\ localManifest.m.md5 = MD5(cfg.built.val)
    /\ localManifest.m.size = Len(cfg.built.val)
    /\ localManifest.m.board = cfg.board

\* C4: after a timeout on attempt 1, and on attempts 1 and 2, the next
\* attempt follows; timeouts on attempts 1 and 2 and a 200 on attempt 3 make
\* post_firmware_to_server return True after exactly 3 POSTs; three attempts
\* that fail by timeout, connection error or another status, in any mix, make
\* it return False, and no exception leaves it.
C4_RetryPolicy ==
    /\ outcomes \in {<<Raises("Timeout")>>, <<Raises("Timeout"), Raises("Timeout")>>}
           => AboutToAttempt(Len(outcomes) + 1)
    /\ outcomes = <<Raises("Timeout"), Raises("Timeout"), Status(200)>>
           => postResult = "True" /\ net.post = 3 /\ ~raised
    /\ (Len(outcomes) = 3 /\ \A i \in 1..3 : RetryableFailure(outcomes[i]))
           => postResult = "False" /\ net.post = 3 /\ ~raised

\* the hook is done after two timeouts and a 200
C4_Witness ==
    /\ cpc = "done"
    /\ outcomes = <<Raises("Timeout"), Raises("Timeout"), Status(200)>>
    /\ postResult = "True"

\* C5: whatever the attempts run into, at most 3 POSTs are made, each POST is
\* counted once, and every attempt but the last one made was a retryable
\* failure: nothing follows a success or an exception that is not retried.
C5_AtMostThreePosts ==
    /\ net.post <= 3
    /\ Len(outcomes) <= 3
    /\ net.post = PostsIn(outcomes)
    /\ \A i \in 1..(Len(outcomes) - 1) : RetryableFailure(outcomes[i])
    /\ postResult # "none" => cpc \in {"returned", "done"}

\* three POSTs were made and the hook is done
C5_Witness ==
    /\ cpc = "done"
    /\ net.post = 3

\* C6: post_firmware_to_server returns True exactly when the last attempt it
\* made got status 200 or 201, and an attempt k < 3 that got another status is
\* followed by attempt k + 1.
C6_SuccessIs200or201 ==
    /\ postResult # "none" =>
           (postResult = "True" <=> (outcomes # <<>> /\ Got200or201(Last(outcomes))))
    /\ \A k \in 1..Len(outcomes) :
           (k < 3 /\ GotOtherStatus(outcomes[k])) => AttemptFollows(k + 1)

\* a 201 on the second attempt, after another status on the first
C6_Witness ==
    /\ postResult = "True"
    /\ outcomes = <<Status(500), Status(201)>>

\* C7: a timeout or connection error on attempt k < 3 is followed by attempt
\* k + 1; any other exception of an attempt, the read of the binary
\* included, is the last thing the loop does: the result is False, no attempt
\* and no POST follows, whatever the attempt number.
C7_FatalVersusRetryable ==
    /\ \A k \in 1..Len(outcomes) :
           (k < 3 /\ TimedOutOrNoConnection(outcomes[k])) => AttemptFollows(k + 1)
    /\ \A k \in 1..Len(outcomes) :
           UnexpectedException(outcomes[k]) =>
               /\ k = Len(outcomes)
               /\ postResult = "False"
               /\ cpc \in {"returned", "done"}
               /\ net.post = PostsIn(outcomes)

\* a connection error on attempt 1 was retried, and the read of the binary
\* failed on attempt 2
C7_Witness ==
    /\ outcomes = <<Raises("ConnectionError"), Raises("OSError")>>
    /\ postResult = "False"
    /\ net.post = 1

\* the terminal states of the upload state machine
SUCCESS == postResult = "True" /\ outcomes # <<>> /\ Got200or201(Last(outcomes))

EXHAUSTED ==
    /\ postResult = "False"
    /\ Len(outcomes) = 3
    /\ \A i \in 1..3 : RetryableFailure(outcomes[i])

FATAL_FAILURE ==
    postResult = "False" /\ outcomes # <<>> /\ UnexpectedException(Last(outcomes))

\* the run went into the state machine (it probed)
Probed == probes.socket # "none"

\* C8: every run of the hook ends, and a run that went into the upload
\* state machine ends in exactly one of SUCCESS, EXHAUSTED and
\* FATAL_FAILURE.
C8_Terminates ==
    /\ <>(cpc = "done")
    /\ [](( cpc = "done" /\ Probed) =>
            \/ (SUCCESS /\ ~EXHAUSTED /\ ~FATAL_FAILURE)
            \/ (~SUCCESS /\ EXHAUSTED /\ ~FATAL_FAILURE)
            \/ (~SUCCESS /\ ~EXHAUSTED /\ FATAL_FAILURE))

\* a run that ended exhausted
C8_Witness ==
    /\ cpc = "done"
    /\ Probed
    /\ EXHAUSTED

\* C9: when the flash method the hook works with is not "ota", it begins no
\* network operation at any point, and when it is done the binary is copied
\* and the manifest written (there being a binary); with neither
\* FLASH_METHOD nor flash_method set the method is "serial".
C9_NoNetworkUnlessOta ==
    /\ (~cfg.envFlash.set /\ ~cfg.optFlash.set) => FlashMethod(cfg) = Str_serial
    /\ FlashMethod(cfg) # Str_ota =>
           /\ net = NoNet
           /\ probes = NoProbes
           /\ outcomes = <<>>
           /\ (cpc = "done" /\ cfg.built.set) => LocallyStaged

\* the hook is done in a build with a server URL and a method that is not
\* ota nor serial
C9_Witness ==
    /\ cpc = "done"
    /\ cfg.optFlash = Some(Str_uart)
    /\ ~cfg.envFlash.set
    /\ cfg.optUrl.set
    /\ cfg.HAS_REQUESTS
    /\ LocallyStaged
    /\ net = NoNet

\* C10: no exception leaves deploy_firmware, whatever the upload came to,
\* a failed upload leads to its return, and from the moment the upload is
\* decided on the local copy and manifest are in place and stay so.
C10_UploadFailureAdvisory ==
    /\ ~raised
    /\ postResult = "False" => cpc \in {"returned", "done"}
    /\ (cpc \in {"branch", "socket", "health", "attempt", "returned"}
        \/ (cpc = "done" /\ cfg.built.set)) => LocallyStaged

\* the hook is done after an attempt raised an exception that is not retried
C10_Witness ==
    /\ cpc = "done"
    /\ postResult = "False"
    /\ outcomes # <<>>
    /\ UnexpectedException(Last(outcomes))
    /\ LocallyStaged

----------------------------------------------------------------------------
\* Properties of the server with handlers running at once (SpecConc)

\* the step answers a GET /health
AnswersHealth ==
    /\ other' # other
    /\ other'.method = "GET"
    /\ other'.path = "/health"

\* C11: in every state of the server (before any upload, after rejected
\* uploads, with one or two uploads in flight) a GET /health can be handled
\* at once, and the step that handles it answers 200 {"status": "ok"},
\* moves no upload handler and leaves firmware.bin and manifest.json as
\* they are
C11_HealthAlwaysAnswered ==
    /\ [](ENABLED Handle("GET", "/health"))
    /\ [][AnswersHealth =>
            /\ other'.resp = HealthOk
            /\ pc' = pc
            /\ fileBin' = fileBin
            /\ manifest' = manifest]_vars

\* a health probe answered while both handler threads are in the middle of
\* their file accesses
C11_Witness ==
    /\ other.method = "GET"
    /\ other.path = "/health"
    /\ other.resp = HealthOk
    /\ pc[1] = "write_bin"
    /\ pc[2] = "write_manifest"

\* thread t has answered 200 to an upload
Answered200(t) ==
    /\ pc[t] = "answered"
    /\ resp[t].code = 200

\* C12: concurrent uploads are not coordinated: a handler that stands
\* before a file access can always take it, whatever the other handler has
\* opened or written so far (no lock, no waiting); so the accesses of two
\* uploads interleave freely, and the state of C12_Witness is reached
C12_UploadsNotCoordinated ==
    \A t \in Threads :
        /\ pc[t] = "open_bin" => ENABLED OpenBin(t)
        /\ pc[t] = "write_bin" => ENABLED WriteBin(t)
        /\ pc[t] = "open_manifest" => ENABLED OpenManifest(t)
        /\ pc[t] = "write_manifest" => ENABLED WriteManifest(t)

\* both uploads answered 200, with different payloads; manifest.json
\* describes the payload of one (md5, size, version, board) while
\* firmware.bin holds the payload of the other
C12_Witness ==
    \E t, u \in Threads :
        /\ Answered200(t)
        /\ Answered200(u)
        /\ firmware_data[t].val # firmware_data[u].val
        /\ manifest.state = "json"
        /\ manifest.m = ServerManifest(firmware_data[t], form_data[t])
        /\ manifest.m # ServerManifest(firmware_data[u], form_data[u])
        /\ fileBin.bytes = firmware_data[u].val

----------------------------------------------------------------------------
\* Properties of the server's answers, one request at a time (Spec)

\* C13: every request other than GET /health and POST /upload, whatever its
\* method and path, is answered 404 {"error": "not found"}
C13_EverythingElseNotFound ==
    /\ (other # NoOther /\ ~(other.method = "GET" /\ other.path = "/health"))
           => other.resp = NotFound
    /\ \A t \in Threads :
           (pc[t] = "answered" /\ req[t].path # "/upload") => resp[t] = NotFound

\* an upload request that breaks the protocol: no firmware field, or a
\* Content-Type header that names no boundary
ProtocolError(r) ==
    /\ r.path = "/upload"
    /\ ~r.firmware.set \/ ~Contains(r.ctype, <<"boundary=">>)

\* C14: a protocol error on POST /upload is answered with a 4xx status
\* (the files are left alone: no such request reaches a file access)
C14_ProtocolErrorIs4xx ==
    \A t \in Threads :
        /\ (pc[t] = "answered" /\ ProtocolError(req[t])) => resp[t].code \in 400..499
        /\ (pc[t] \in FileSteps \cup {"respond"}) => ~ProtocolError(req[t])

----------------------------------------------------------------------------
\* Properties of one upload whose file accesses may fail (SpecIO)

\* positions in the record of thread t's file accesses
Accesses(t, entry) == {i \in 1..Len(wlog[t]) : wlog[t][i] = entry}

\* the upload thread t handles has opened (truncated) manifest.json
ManifestTouched(t) == Accesses(t, <<"open", "manifest.json">>) # {}

\* C19: within one upload the binary is written before the manifest: at
\* every point of the handler, and after an IO error or a kill at any
\* point, manifest.json has been touched by this upload only if this
\* upload's write of firmware.bin came before and firmware.bin holds this
\* upload's bytes; the new manifest is never there with the old binary
C19_BinaryBeforeManifest ==
    \A t \in Threads :
        /\ \A i \in Accesses(t, <<"open", "manifest.json">>) :
               \E j \in Accesses(t, <<"write", "firmware.bin">>) : j < i
        /\ ManifestTouched(t) => fileBin.bytes = firmware_data[t].val

\* the process is killed between the open and the write of manifest.json,
\* when an older upload was staged: firmware.bin is the new one, the
\* manifest is not
C19_Witness ==
    /\ pc[1] = "dead"
    /\ replaced[1]
    /\ wlog[1][Len(wlog[1])] = <<"killed", "write_manifest">>
    /\ fileBin.bytes = firmware_data[1].val
    /\ manifest.state # "json"

----------------------------------------------------------------------------
\* Properties of the staged pair, one request at a time (Spec)

\* C20: after any sequence of requests handled one at a time (uploads
\* answered 200, uploads rejected with 400, requests answered 404 or 501,
\* health probes), whenever manifest.json exists it is a whole manifest
\* whose md5 is the MD5 of what firmware.bin holds and whose size is its
\* length, and both are those of the last upload answered 200
C20_ManifestMatchesBinary ==
    (InFlight = {} /\ manifest.state # "absent") =>
        /\ manifest.state = "json"
        /\ fileBin.exists
        /\ manifest.m.md5 = MD5(fileBin.bytes)
        /\ manifest.m.size = Len(fileBin.bytes)
        /\ lastOk.set
        /\ manifest.m.md5 = lastOk.md5
        /\ manifest.m.size = lastOk.size

\* an upload was staged, then another upload was rejected with 400
C20_Witness ==
    /\ pc[1] = "answered"
    /\ resp[1] = NoFirmwareResp
    /\ lastOk.set
    /\ manifest.state = "json"
    /\ manifest.m.size = MaxLen

----------------------------------------------------------------------------
\* Properties of the build hooks' configuration (SpecClient)

\* C15: the environment variable OTA_SERVER_URL overrides the project option
\* ota_server_url: when it is set (and not empty), the URL the hook posts to
\* is the environment's
C15_EnvUrlOverrides ==
    (server_url.set /\ cfg.envUrl.set /\ cfg.envUrl.val # <<>>)
        => server_url.val = cfg.envUrl.val

\* the precedence rule as the claim words it: the environment value if the
\* variable is set, else the project value if it is non-empty, else
\* "serial"; trimmed and lower-cased
ClaimedMethod(c) ==
    LET chosen == IF c.envFlash.set THEN c.envFlash.val
                  ELSE IF c.optFlash.set /\ c.optFlash.val # <<>> THEN c.optFlash.val
                  ELSE Str_serial
    IN  Lower(Strip(chosen))

\* C16: for every combination of FLASH_METHOD (unset, empty, set) and
\* flash_method (unset, empty, set) both hooks resolve the method by the
\* rule of ClaimedMethod, and act on it: select_upload replaces the upload
\* command exactly when the rule gives "ota", and deploy_firmware calls
\* post_firmware_to_server only when it does (and then always, once the
\* firmware is staged and a URL is configured)
C16_FlashMethodPrecedence ==
    /\ FlashMethod(cfg) = ClaimedMethod(cfg)
    /\ SelectMethod(cfg) = ClaimedMethod(cfg)
    /\ cpc # "select" => (UPLOADCMD = "disabled" <=> ClaimedMethod(cfg) = Str_ota)
    /\ server_url.set => ClaimedMethod(cfg) = Str_ota
    /\ (cpc \notin {"select", "deploy", "copy", "manifest", "branch"}
            /\ cfg.built.set /\ ServerUrl(cfg) # <<>> /\ ClaimedMethod(cfg) = Str_ota)
           => server_url.set

\* FLASH_METHOD=" OTA " wins over flash_method = uart: the upload command
\* is replaced and the hook has gone on to post
C16_Witness ==
    /\ cfg.envFlash = Some(Str_OTA_padded)
    /\ cfg.optFlash = Some(Str_uart)
    /\ UPLOADCMD = "disabled"
    /\ server_url.set
    /\ net.post > 0

----------------------------------------------------------------------------
\* Properties of the probes of post_firmware_to_server (SpecClient)

\* what the attempts alone say the function returns
ResultOf(os) == IF Got200or201(Last(os)) THEN "True" ELSE "False"

\* C17: the two probes are diagnostics only: whatever the socket probe came
\* to, the health probe follows; whatever the health probe came to, attempt
\* 1 follows (no return before the first attempt); and the number of POSTs
\* and the value returned are those the attempts' outcomes alone give,
\* whatever the probes came to
C17_ProbesAreAdvisory ==
    /\ (probes.socket # "none" /\ probes.health = "none") => cpc = "health"
    /\ probes.health # "none" =>
           /\ attempt >= 1
           /\ cpc = "attempt" \/ Len(outcomes) >= 1
           /\ net.post = PostsIn(outcomes)
           /\ postResult # "none" => postResult = ResultOf(outcomes)

\* both probes failed, and the first attempt was answered 200
C17_Witness ==
    /\ probes = [socket |-> "failed", health |-> "failed"]
    /\ Len(outcomes) = 1
    /\ Got200or201(outcomes[1])
    /\ postResult = "True"

----------------------------------------------------------------------------
\* Properties of the local manifest (SpecClient)

\* json.loads(text) has the key, with this value
Holds(loaded, key, value) == key \in DOMAIN loaded /\ loaded[key] = value

\* C18: the manifest is durable across the hand-off through the file:
\* reading manifest.json back (json.loads of the text written) gives the
\* version, md5, size and board that were handed to json.dumps, those of
\* the build and of the firmware that was copied
C18_ManifestRoundTrip ==
    localManifest.exists =>
        LET loaded == JsonLoads(localManifest.text)
        IN  /\ Holds(loaded, <<"version">>, cfg.version)
            /\ Holds(loaded, <<"md5">>, DigestText(MD5(cfg.built.val)))
            /\ Holds(loaded, <<"size">>, Len(cfg.built.val))
            /\ Holds(loaded, <<"board">>, cfg.board)
            /\ Holds(loaded, <<"version">>, localManifest.m.version)
            /\ Holds(loaded, <<"md5">>, DigestText(localManifest.m.md5))
            /\ Holds(loaded, <<"size">>, localManifest.m.size)
            /\ Holds(loaded, <<"board">>, localManifest.m.board)

\* a manifest written for a version that holds a backslash and a firmware
\* whose size takes two digits
C18_Witness ==
    /\ localManifest.exists
    /\ cfg.version = <<"\\", "n">>
    /\ cfg.built = Some(TenBytes)
    /\ Len(localManifest.text) > 0

----------------------------------------------------------------------------
\* Properties of the answers of interleaved handlers (SpecConc)

\* C21: under every interleaving of two upload handlers, the md5 and the
\* size of a 200 response are those of the firmware bytes the parser took
\* from that request, whatever firmware.bin and manifest.json hold by then
C21_ResponseIsOwn ==
    \A t \in Threads :
        Answered200(t) =>
            LET own == Parse(req[t]).firmware_data.val
            IN  /\ resp[t].md5 = MD5(own)
                /\ resp[t].size = Len(own)
                /\ resp[t].status = "ok"

\* a handler answered 200 with the digest of its own bytes while
\* firmware.bin holds the bytes of the other request, which is still in
\* flight, and manifest.json describes them
C21_Witness ==
    \E t, u \in Threads :
        /\ Answered200(t)
        /\ u \in InFlight
        /\ fileBin.bytes = firmware_data[u].val
        /\ fileBin.bytes # firmware_data[t].val
        /\ resp[t].md5 # MD5(fileBin.bytes)
        /\ resp[t].md5 = MD5(firmware_data[t].val)

----------------------------------------------------------------------------
\* Properties of the two build hooks together (SpecClient)

\* deploy_firmware has evaluated `if flash_method == "ota"` (line 170)
PastBranch == cpc \in {"socket", "health", "attempt", "returned", "done"} /\ cfg.built.set

\* C22: the two hooks agree on the flash method, for every FLASH_METHOD and
\* flash_method: once select_upload has run, the upload command is replaced
\* exactly when the test of line 170 is true; a firmware is never posted
\* (or handed to post_firmware_to_server) with the upload command left in
\* place, and with the upload command left in place (serial, uart, unknown
\* methods) no network operation is made.  Once deploy_firmware is past
\* line 170 with the upload command replaced and a URL configured, it has
\* called post_firmware_to_server.
C22_HooksAgree ==
    /\ cpc # "select" => (UPLOADCMD = "disabled" <=> IsOta(FlashMethod(cfg)))
    /\ server_url.set => UPLOADCMD = "disabled"
    /\ UPLOADCMD = "default" => net = NoNet
    /\ (PastBranch /\ UPLOADCMD = "disabled" /\ ServerUrl(cfg) # <<>>) => server_url.set

\* FLASH_METHOD is set but empty while the project says ota: both hooks
\* take the method as unknown; the firmware is staged, the upload command
\* is in place and nothing was sent
C22_Witness ==
    /\ cfg.envFlash = Some(<<>>)
    /\ cfg.optFlash = Some(Str_ota)
    /\ ServerUrl(cfg) # <<>>
    /\ cpc = "done"
    /\ LocallyStaged
    /\ UPLOADCMD = "default"
    /\ net = NoNet

----------------------------------------------------------------------------
\* Properties of send_command (SpecInspect)

\* the i-th line read started with FS_RESP: / was the end marker
RespAt(i) == StartsWithPrefix(heard[i].line)
EndAt(i) == heard[i].line = <<RESPONSE_END>>

\* the payloads of the FS_RESP: lines among the first n lines read, in the
\* order they were read
RECURSIVE PayloadsHeard(_)
PayloadsHeard(n) ==
    IF n = 0 THEN <<>>
    ELSE IF RespAt(n) THEN Append(PayloadsHeard(n - 1), From(heard[n].line, 2))
    ELSE PayloadsHeard(n - 1)

\* an end marker was read after a response line
Framed == \E i, j \in 1..Len(heard) : i < j /\ RespAt(i) /\ EndAt(j)

\* C23: send_command returns a result other than None only when a line
\* starting with FS_RESP: was read and the end marker FS_END was read after
\* it, at a loop test before the timeout; the result is then the payloads of
\* all FS_RESP: lines read, in order, joined by newlines.  Lines without the
\* prefix, and end markers before the first FS_RESP: line, change nothing.
\* Otherwise (the port being open) it returns None, and only once the
\* timeout has elapsed.  Lines are compared stripped of surrounding blanks.
C23_ResponseFraming ==
    /\ result.set =>
           /\ ipc = "done"
           /\ Framed
           /\ EndAt(Len(heard))
           /\ \A i \in 1..Len(heard) : heard[i].at < timeout
           /\ result.val = Join(PayloadsHeard(Len(heard)), "\n")
    /\ ipc = "loop" =>
           /\ ~Framed
           /\ response_lines = PayloadsHeard(Len(heard))
           /\ found_response <=> \E i \in 1..Len(heard) : RespAt(i)
    /\ (ipc = "done" /\ is_open /\ ~result.set) =>
           /\ ~Framed
           /\ clock >= timeout

\* an end marker came first and was passed over; in the end a response
\* line and the end marker: the result is the one payload
C23_Witness ==
    /\ result = Some(<<"a">>)
    /\ Len(heard) = MaxLines
    /\ EndAt(1)
    /\ RespAt(Len(heard) - 1)
    /\ in_waiting = <<>>

====
